---- MODULE Spec2Model ----
(***************************************************************************)
(* Chapter-atomic translation pipeline: src/main.py and the engines.       *)
(*                                                                         *)
(* The pipeline is a single sequential worker: run() loads the durable     *)
(* state, walks the chapters of the book in document order and, for each   *)
(* chapter that is not in the checkpoint, goes through glossary delta,     *)
(* chunked translation, summary/character update, editing, HTML rebuild,   *)
(* commit and checkpoint.  An exception anywhere leaves run(); the process *)
(* can also be interrupted between any two steps.  A later run starts from *)
(* the durable state only.                                                 *)
(*                                                                         *)
(* Text is modelled by what the code does with it:                         *)
(*   - a glossary source term is a word with a capitalisation flag and a   *)
(*     padding flag, so that lower() and strip() are real conversions;     *)
(*   - a provider's translation response is a sequence of tokens (block    *)
(*     markers "[n]" and text atoms); the regular expression of            *)
(*     translate_chunk is the walk FindAll over the tokens;                *)
(*   - a translated block is the sequence of text atoms left after strip.  *)
(*                                                                         *)
(* The boundaries typed by the user (first narrative index, last chapter   *)
(* index) are taken to be the same in every run of one behaviour.          *)
(*                                                                         *)
(* Calls are modelled as run() makes them.  commit_chapter(idx, in_state,  *)
(* html) runs the body of commit_chapter(in_state), which writes glossary, *)
(* summary and characters and no chapter content.  get_chapter_html, which *)
(* state_manager does not define, returns the content stored for the       *)
(* chapter; chapter_cache is that store, and nothing in src/ writes it.    *)
(* A write that raises leaves its file as it was.                          *)
(***************************************************************************)
EXTENDS Integers, Sequences, FiniteSets, TLC

(***************************************************************************)
(* Bounds of the model                                                     *)
(***************************************************************************)
NumChapters == 2      \* chapters in the book
MaxBlocks == 2        \* translatable blocks in one chapter
MaxRuns == 2          \* runs of the pipeline in one behaviour
MaxTerms == 2         \* elements in one glossary response
MaxCast == 2          \* character lines in one character response
MaxTokens == 4        \* tokens of a raw translation response (function level)

(***************************************************************************)
(* Program constants                                                       *)
(***************************************************************************)
HARD_LIMIT_BLOCKS == 999
DEFAULT_LIMIT == 8192
INTRA_CONTEXT_BLOCKS == 200
max_context_chunks == 2

(***************************************************************************)
(* Generic helpers                                                         *)
(***************************************************************************)
SeqsUpTo(S, n) == UNION {[1..k -> S] : k \in 0..n}

Range(s) == {s[i] : i \in 1..Len(s)}

IsPrefix(s, t) == Len(s) <= Len(t) /\ SubSeq(t, 1, Len(s)) = s

Min(a, b) == IF a < b THEN a ELSE b

Max(a, b) == IF a > b THEN a ELSE b

ChapterIds == 0..(NumChapters - 1)

(***************************************************************************)
(* Strings of glossary terms: a word, capitalised or not, padded with      *)
(* white space or not.  The empty word stands for the empty string.        *)
(***************************************************************************)
Words == {"foo"}

Str(words) == [w : words, cap : BOOLEAN, pad : BOOLEAN]

lower(s) == [s EXCEPT !.cap = FALSE]

strip(s) == [s EXCEPT !.pad = FALSE]

IsEmptyStr(s) == s.w = ""

(***************************************************************************)
(* GlossaryEngine.parse_delta and the deduplication of run().              *)
(*                                                                         *)
(* An element of the provider's JSON is a record: kind "term" is an object *)
(* with a textual "source" and a "target"; "nosource" and "notarget" lack  *)
(* the field; "nonstr" has a "source" that is not text; "notdict" is not   *)
(* an object.  The response text has a form: "array" (valid JSON list),    *)
(* "object" (valid JSON, not a list), "truncated" (invalid JSON in which   *)
(* complete objects can still be found), "garbage" (nothing to find) and   *)
(* "empty" (no text); it may be wrapped in a code fence.                   *)
(***************************************************************************)
ElemKinds == {"term", "nosource", "notarget", "nonstr", "notdict"}

Targets == {"T"}

Elements(words) == [kind : ElemKinds, source : Str(words), target : Targets]

TermsOver(words) == [kind : {"term"}, source : Str(words), target : Targets]

TextForms == {"array", "object", "truncated", "garbage", "empty"}

extract_json(text) == [text EXCEPT !.fenced = FALSE]

\* the objects the rescue pattern finds: they hold "source" and "target"
_rescue_incomplete_json(text) ==
    SelectSeq(text.items, LAMBDA e : e.kind \in {"term", "nonstr"})

json_loads_ok(text) == text.form \in {"array", "object"} /\ ~text.fenced

\* data after steps 1-3 of parse_delta; <<>> when the function returns []
ParsedData(text) ==
    LET clean == extract_json(text)
    IN  IF json_loads_ok(clean)
        THEN IF clean.form = "array" THEN clean.items ELSE <<>>
        ELSE IF clean.form = "truncated"
             THEN _rescue_incomplete_json(clean)
             ELSE <<>>

RECURSIVE FilterEntries(_, _, _)
FilterEntries(data, seen, final_data) ==
    IF data = <<>> THEN final_data
    ELSE LET e == Head(data)
             source_val == strip(e.source)
         IN  IF e.kind = "term" /\ ~IsEmptyStr(source_val) /\ source_val \notin seen
             THEN FilterEntries(Tail(data), seen \cup {source_val}, Append(final_data, e))
             ELSE FilterEntries(Tail(data), seen, final_data)

\* e["source"].strip() on a source that is not text raises AttributeError
parse_delta_raises(text) ==
    \E i \in 1..Len(ParsedData(text)) : ParsedData(text)[i].kind = "nonstr"

parse_delta(text) == FilterEntries(ParsedData(text), {}, <<>>)

existing_sources(entries) == {lower(entries[i].source) : i \in 1..Len(entries)}

IsNewTerm(term, entries) == lower(term.source) \notin existing_sources(entries)

unique_terms(raw_terms, entries) ==
    SelectSeq(raw_terms, LAMBDA term : IsNewTerm(term, entries))

(***************************************************************************)
(* CharacterEngine: parsing the provider's text and the pronoun lock.      *)
(* A character is a name with a pronoun record; role and description do    *)
(* not take part in any decision and are left out.                         *)
(***************************************************************************)
Names == {"A", "B"}

PronounWords == {"anh", "co"}

PronStr == [p : PronounWords, cap : BOOLEAN]

pron_lower(s) == [s EXCEPT !.cap = FALSE]

DefaultPronoun == [p |-> "anh", cap |-> FALSE]

\* a line of the response: wellformed = starts with "-" and has >= 3 columns
CharLines(names) == [wellformed : BOOLEAN, name : names, has4 : BOOLEAN, pron : PronStr]

vi_pronoun(p_val) == [default |-> p_val, allowed |-> <<p_val>>, locked |-> TRUE]

ParseLine(line) ==
    LET p_val == IF line.has4 THEN pron_lower(line.pron) ELSE DefaultPronoun
    IN  [name |-> line.name, vi_pronoun |-> vi_pronoun(p_val)]

_parse_character_raises(text) == ~text.header

RECURSIVE _parse_character_text(_)
_parse_character_text(lines) ==
    IF lines = <<>> THEN <<>>
    ELSE IF Head(lines).wellformed
         THEN <<ParseLine(Head(lines))>> \o _parse_character_text(Tail(lines))
         ELSE _parse_character_text(Tail(lines))

RosterNames(roster) == {roster[i].name : i \in 1..Len(roster)}

\* the dict comprehension keeps, for a name listed twice, the last entry
locked_data(current_characters, name) ==
    LET I == {i \in 1..Len(current_characters) : current_characters[i].name = name}
        last == CHOOSE i \in I : \A j \in I : j <= i
    IN  current_characters[last].vi_pronoun

\* faulty variant: the provider's pronoun is kept for a known name
MergeKeepsParsed(c, current_characters) == c

MergeEntry(c, current_characters) ==
    IF c.name \in RosterNames(current_characters)
    THEN [c EXCEPT !.vi_pronoun = locked_data(current_characters, c.name)]
    ELSE c

update_characters(current_characters, lines) ==
    LET new_extracted == _parse_character_text(lines)
    IN  [i \in 1..Len(new_extracted) |-> MergeEntry(new_extracted[i], current_characters)]

init_characters(lines) == _parse_character_text(lines)

(***************************************************************************)
(* TranslationEngine.translate_chunk: the parse of the provider's text.    *)
(* A token is a block marker "[n]" or a text atom; an atom is a piece of   *)
(* translated text ("vi" of source block k, "ed" an edited block k), white *)
(* space ("ws") or a prompt label such as "ORIGINAL:" ("label").           *)
(***************************************************************************)
Atom(a, k) == [a |-> a, k |-> k]

WS == Atom("ws", 0)

LABEL == Atom("label", 0)

Mark(n) == [t |-> "mark", n |-> n, v |-> WS]

Text(v) == [t |-> "text", n |-> 0, v |-> v]

RECURSIVE LStrip(_)
LStrip(s) == IF s # <<>> /\ Head(s) = WS THEN LStrip(Tail(s)) ELSE s

RECURSIVE RStrip(_)
RStrip(s) ==
    IF s # <<>> /\ s[Len(s)] = WS THEN RStrip(SubSeq(s, 1, Len(s) - 1)) ELSE s

StripText(s) == RStrip(LStrip(s))

\* pattern.findall: text before the first marker is skipped; each marker
\* opens a match whose content runs to the next marker or to the end
RECURSIVE FindAll(_, _)
FindAll(toks, acc) ==
    IF toks = <<>> THEN acc
    ELSE LET tk == Head(toks)
         IN  IF tk.t = "mark"
             THEN FindAll(Tail(toks), Append(acc, [idx |-> tk.n, content |-> <<>>]))
             ELSE IF acc = <<>>
                  THEN FindAll(Tail(toks), acc)
                  ELSE FindAll(Tail(toks),
                               [acc EXCEPT ![Len(acc)].content = Append(@, tk.v)])

Matches(vi_text) == FindAll(vi_text, <<>>)

\* the blocks built from the matches, in the order of the matches
BlocksOf(matches) == [i \in 1..Len(matches) |-> StripText(matches[i].content)]

AcceptMatches(matches, N) == matches # <<>> /\ Len(matches) = N

\* outcome: [ok |-> the call layer returned text, raw |-> that text]
translate_chunk(N, outcome) ==
    LET matches == IF outcome.ok THEN Matches(outcome.raw) ELSE <<>>
    IN  IF outcome.ok /\ AcceptMatches(matches, N)
        THEN [raised |-> FALSE, matches |-> matches, blocks |-> BlocksOf(matches)]
        ELSE [raised |-> TRUE, matches |-> matches, blocks |-> <<>>]

(***************************************************************************)
(* TranslationEngine.calculate_optimal_chunk_size, in integer arithmetic:  *)
(* int(len / 3.5) = (2 * len) \div 7, x * 1.8 > y  <=>  18 * x > 10 * y.   *)
(* count[i] is the outcome of the count_tokens call made at block i: a     *)
(* token count, or CountError when the call fails.                         *)
(***************************************************************************)
CountError == -1

safe_limit(raw_limit) == (raw_limit * 9) \div 10

block_est(block_len) == (2 * block_len) \div 7


\* faulty variant: the count of the API is never consulted
CutsOnEstimate(projected18, safe, count_i) == projected18 > safe * 10

CutsChunk(projected18, safe, count_i) ==
    /\ projected18 > safe * 8
    /\ IF count_i = CountError
       THEN projected18 > safe * 10
       ELSE count_i * 18 > safe * 10

RECURSIVE ChunkWalk(_, _, _, _, _, _)
ChunkWalk(lens, i, current_est_tokens, blocks_to_take, safe, count) ==
    IF i > Len(lens) THEN blocks_to_take
    ELSE LET est == block_est(lens[i])
             projected18 == (current_est_tokens + est) * 18
         IN  IF CutsChunk(projected18, safe, count[i]) THEN blocks_to_take
             ELSE IF blocks_to_take >= HARD_LIMIT_BLOCKS THEN blocks_to_take
             ELSE ChunkWalk(lens, i + 1, current_est_tokens + est,
                            blocks_to_take + 1, safe, count)


\* faulty variant: the number of accepted blocks is returned as it is
chunk_size_unclamped(remaining_lens, raw_limit, count) ==
    ChunkWalk(remaining_lens, 1, 0, 0, safe_limit(raw_limit), count)


\* faulty variant: one block more than there are
chunk_size_beyond(remaining_lens, raw_limit, count) == Len(remaining_lens) + 1

calculate_optimal_chunk_size(remaining_lens, raw_limit, count) ==
    Max(1, ChunkWalk(remaining_lens, 1, 0, 0, safe_limit(raw_limit), count))

(***************************************************************************)
(* InChapterState: the rolling context.                                    *)
(***************************************************************************)

\* faulty variant: the blocks are not looked at
NeverContaminated(vi_chunk) == FALSE

Contaminated(vi_chunk) ==
    \E i \in 1..Len(vi_chunk) : LABEL \in Range(vi_chunk[i])


\* faulty variant: the chunk is not stored
chunk_not_stored(chunks, vi_chunk) == chunks

add_translated_chunk(chunks, vi_chunk) ==
    IF vi_chunk = <<>> THEN chunks
    ELSE LET appended == Append(chunks, vi_chunk)
         IN  IF Len(appended) > max_context_chunks
             THEN SubSeq(appended, Len(appended) - max_context_chunks + 1, Len(appended))
             ELSE appended

\* newest chunk first, newest block first, until max_blocks are collected;
\* flat is kept newest-first and reversed at the end
RECURSIVE CollectNewest(_, _, _, _, _)
CollectNewest(chunks, c, b, flat, max_blocks) ==
    IF c < 1 THEN flat
    ELSE IF b < 1
         THEN CollectNewest(chunks, c - 1,
                            IF c > 1 THEN Len(chunks[c - 1]) ELSE 0, flat, max_blocks)
         ELSE LET flat2 == Append(flat, chunks[c][b])
              IN  IF Len(flat2) >= max_blocks THEN flat2
                  ELSE CollectNewest(chunks, c, b - 1, flat2, max_blocks)

Reversed(s) == [i \in 1..Len(s) |-> s[Len(s) + 1 - i]]


\* faulty variant: the blocks are returned newest first
get_last_newest_first(chunks, max_blocks) ==
    IF max_blocks <= 0 \/ chunks = <<>> THEN <<>>
    ELSE CollectNewest(chunks, Len(chunks), Len(chunks[Len(chunks)]), <<>>, max_blocks)

get_last_chunks(chunks, max_blocks) ==
    IF max_blocks <= 0 \/ chunks = <<>> THEN <<>>
    ELSE Reversed(CollectNewest(chunks, Len(chunks), Len(chunks[Len(chunks)]),
                                <<>>, max_blocks))

(***************************************************************************)
(* html_rebuilder.rebuild_html_blocks                                      *)
(***************************************************************************)
IsEmptyBlock(vi_text) == StripText(vi_text) = <<>>

rebuild_raises(n_nodes, translated_blocks) ==
    \/ n_nodes # Len(translated_blocks)
    \/ \E i \in 1..Len(translated_blocks) : IsEmptyBlock(translated_blocks[i])

(***************************************************************************)
(* state_manager and checkpoint_manager                                    *)
(***************************************************************************)
NoSnapshot == [some |-> FALSE, val |-> <<>>]

Snapshot(v) == [some |-> TRUE, val |-> v]

\* "is not None" and truthy: the snapshot is written
Writes(snapshot) == snapshot.some /\ snapshot.val # <<>>

\* faulty variant: the delta is put in front of the stored entries
PrependEntries(entries, glossary_delta) == glossary_delta \o entries

ExtendEntries(entries, glossary_delta) == entries \o glossary_delta

\* faulty variant: the stored set is not loaded before the write
mark_only(done, i) == {i}

mark_done(done, i) == done \cup {i}

\* faulty variant: the checkpoint is not consulted
NeverDone(i, done) == FALSE

IsDone(i, done) == i \in done

(***************************************************************************)
(* The book and the chapters                                               *)
(*   lens  : the lengths of the translatable blocks, in document order     *)
(*   vocab : the words the provider reports as glossary terms              *)
(*   cast  : the names the provider reports as characters                  *)
(***************************************************************************)
BlockLen == 7

PlainChapters == [lens : SeqsUpTo({BlockLen}, MaxBlocks), vocab : {{}}, cast : {{}}]

TermChapters == [lens : {<<>>, <<BlockLen>>}, vocab : {Words}, cast : {{}}]

CastChapters == [lens : {<<>>, <<BlockLen>>}, vocab : {{}}, cast : {Names}]

PlainBooks == [ChapterIds -> PlainChapters]

TermBooks == [ChapterIds -> TermChapters]

CastBooks == [ChapterIds -> CastChapters]

Orig == [kind |-> "orig", blocks |-> <<>>]

NoCache == [kind |-> "none", blocks |-> <<>>]

Html(blocks) == [kind |-> "html", blocks |-> blocks]

NewInState == [glossary_delta |-> <<>>, summary_snapshot |-> NoSnapshot,
               character_snapshot |-> NoSnapshot, translated_chunks |-> <<>>]

NoText == [form |-> "empty", fenced |-> FALSE, items |-> <<>>]

NoCommit == [idx |-> -1, ai_text |-> NoText]

(***************************************************************************)
(* What the providers may answer, per chapter                              *)
(***************************************************************************)
\* glossary: no text after all retries, unusable text, or a JSON array
GlossaryElems(vocab) ==
    TermsOver(vocab) \cup
    {e \in Elements(vocab) : e.kind = "nonstr" /\ ~e.source.cap /\ ~e.source.pad}

GlossaryTexts(ch) ==
    {NoText, [form |-> "garbage", fenced |-> FALSE, items |-> <<>>]} \cup
    [form : {"array"}, fenced : {FALSE}, items : SeqsUpTo(GlossaryElems(ch.vocab), MaxTerms)]

\* characters: the call fails after its retries, or a text with or without
\* the header and with well-formed lines
CastLines(cast) ==
    {l \in CharLines(cast) : l.wellformed /\ l.has4 /\ ~l.pron.cap}

CharTexts(ch) ==
    [ok : {FALSE}, header : {FALSE}, lines : {<<>>}] \cup
    [ok : {TRUE}, header : {FALSE}, lines : {<<>>}] \cup
    [ok : {TRUE}, header : {TRUE}, lines : SeqsUpTo(CastLines(ch.cast), MaxCast)]

\* translation of the n blocks after offset off: segments "[m] text"
Seg(m, body) == [m |-> m, body |-> body]

RECURSIVE Render(_)
Render(segs) ==
    IF segs = <<>> THEN <<>>
    ELSE <<Mark(Head(segs).m)>>
         \o [i \in 1..Len(Head(segs).body) |-> Text(Head(segs).body[i])]
         \o Render(Tail(segs))

Vi(k) == Atom("vi", k)

GoodSegs(off, n) == [i \in 1..n |-> Seg(i, <<Vi(off + i), WS>>)]

TranslateTexts(off, n) ==
    {Render(GoodSegs(off, n)),
     Render(Reversed(GoodSegs(off, n))),
     Render(SubSeq(GoodSegs(off, n), 1, n - 1)),
     Render(Append(GoodSegs(off, n), Seg(n + 1, <<Vi(off + n)>>))),
     <<Text(Vi(off + 1))>>,
     <<>>}
    \cup {Render([GoodSegs(off, n) EXCEPT ![p] = Seg(p, <<WS>>)]) : p \in 1..n}
    \cup {Render([GoodSegs(off, n) EXCEPT ![p] = Seg(p, <<LABEL, Vi(off + p)>>)]) : p \in 1..n}

TranslateOutcomes(off, n) ==
    {[ok |-> FALSE, raw |-> <<>>]} \cup [ok : {TRUE}, raw : TranslateTexts(off, n)]

ApiLimits == {5}

TokenCounts == {2, 3}

ModelLimits == ApiLimits \cup {DEFAULT_LIMIT}

CountOracles(n) == [1..n -> TokenCounts \cup {CountError}]

\* the editor: k blocks recovered from the provider, the one at position
\* blank (if any) with empty text, the rest taken from the draft
Ed(k) == Atom("ed", k)

\* faulty variant: the blocks the provider did not return are not filled
\* in from the draft
edit_chapter_unfilled(draft_vi_blocks, k, blank) ==
    [i \in 1..k |-> IF i = blank THEN <<>> ELSE <<Ed(i)>>]

edit_chapter(draft_vi_blocks, k, blank) ==
    [i \in 1..Len(draft_vi_blocks) |->
        IF i <= k THEN (IF i = blank THEN <<>> ELSE <<Ed(i)>>)
        ELSE draft_vi_blocks[i]]

(***************************************************************************)
(* State                                                                   *)
(***************************************************************************)
VARIABLES
    \* durable state (files)
    glossary_file,      \* entries of state/glossary.json
    summary_file,       \* state/summary_context.json, <<>> when absent
    char_file,          \* state/character_context.json
    checkpoint,         \* done_chapters of state/checkpoint.json
    chapter_cache,      \* rendered chapter content by chapter index
    \* the invocation
    book, first_narrative_index, last_chapter_index,
    \* memory of the running process
    pc, runs, idx, glossary, summary, characters, done_chapters,
    limit_cache, items, calls,
    \* memory of the chapter being processed
    ai_text, in_state, vi_blocks, current_idx,
    \* history
    first_pronoun,      \* the pronouns each name was first stored with
    prev_commit,        \* the last commit not yet followed by its checkpoint
    \* function-level checks
    call

durable == <<glossary_file, summary_file, char_file, checkpoint, chapter_cache>>

invocation == <<book, first_narrative_index, last_chapter_index>>

process == <<pc, runs, idx, glossary, summary, characters, done_chapters,
             limit_cache, items, calls>>

chapter == <<ai_text, in_state, vi_blocks, current_idx>>

history == <<first_pronoun, prev_commit>>

vars == <<durable, invocation, process, chapter, history, call>>

NoCall == [op |-> "none"]

(***************************************************************************)
(* run(): classification and the blocks of a chapter                       *)
(***************************************************************************)
FirstNarrativeChoices == {0, 1}

LastChapterChoices == {NumChapters - 1}


\* classify_chapter of engine/chapter_classifier.py, on the blocks of text
\* of a chapter
classify_chapter(chapter_blocks, has_seen_narrative) ==
    IF chapter_blocks = <<>> THEN "NON_NARRATIVE"
    ELSE IF ~has_seen_narrative THEN "FIRST_NARRATIVE"
    ELSE "NARRATIVE"

chapter_type(i) ==
    IF i < first_narrative_index THEN "NON_NARRATIVE"
    ELSE IF i = first_narrative_index THEN "FIRST_NARRATIVE"
    ELSE "NARRATIVE"

is_narrative(i) == chapter_type(i) # "NON_NARRATIVE"

en_blocks == book[idx].lens

total_blocks_count == Len(en_blocks)

InLoop == pc = "loop" /\ idx <= last_chapter_index /\ idx < NumChapters

\* "if not ai_text: ai_text = '[]'"
EffectiveText(text) ==
    IF text.form = "empty" THEN [form |-> "array", fenced |-> FALSE, items |-> <<>>]
    ELSE text

PronounsOf(roster, name) ==
    {roster[i].vi_pronoun : i \in {j \in 1..Len(roster) : roster[j].name = name}}

InitWith(books) ==
    /\ glossary_file = <<>> /\ summary_file = <<>> /\ char_file = <<>>
    /\ checkpoint = {}
    /\ chapter_cache = [i \in ChapterIds |-> NoCache]
    /\ book \in books
    /\ first_narrative_index \in FirstNarrativeChoices
    /\ last_chapter_index \in LastChapterChoices
    /\ pc = "stopped" /\ runs = 0 /\ idx = 0
    /\ glossary = <<>> /\ summary = <<>> /\ characters = <<>>
    /\ done_chapters = {} /\ limit_cache = 0
    /\ items = [i \in ChapterIds |-> Orig] /\ calls = {}
    /\ ai_text = NoText /\ in_state = NewInState
    /\ vi_blocks = <<>> /\ current_idx = 0
    /\ first_pronoun = [n \in Names |-> {}]
    /\ prev_commit = NoCommit
    /\ call = NoCall

\* the process ends (exception, interruption or normal end): its memory is gone
EndProcess(newpc, at) ==
    /\ pc' = newpc /\ idx' = at /\ runs' = runs
    /\ glossary' = <<>> /\ summary' = <<>> /\ characters' = <<>>
    /\ done_chapters' = {} /\ limit_cache' = 0
    /\ items' = [i \in ChapterIds |-> Orig] /\ calls' = {}
    /\ ai_text' = NoText /\ in_state' = NewInState
    /\ vi_blocks' = <<>> /\ current_idx' = 0


\* faulty variant: a chapter that failed is left behind and the loop goes on
RaiseContinues ==
    /\ pc' = "loop" /\ idx' = idx + 1
    /\ ai_text' = NoText /\ in_state' = NewInState
    /\ vi_blocks' = <<>> /\ current_idx' = 0
    /\ UNCHANGED <<runs, glossary, summary, characters, done_chapters, limit_cache,
                   items, calls>>

Raise == EndProcess("failed", idx)

ResetChapter ==
    /\ ai_text' = NoText /\ in_state' = NewInState
    /\ vi_blocks' = <<>> /\ current_idx' = 0

\* run(), lines 56-75
StartRun ==
    /\ pc \in {"stopped", "failed", "finished"}
    /\ runs < MaxRuns
    /\ runs' = runs + 1
    /\ pc' = "loop" /\ idx' = 0
    /\ glossary' = glossary_file
    /\ summary' = summary_file
    /\ characters' = char_file
    /\ done_chapters' = checkpoint
    /\ limit_cache' = 0
    /\ items' = [i \in ChapterIds |-> Orig] /\ calls' = {}
    /\ ResetChapter
    /\ UNCHANGED <<durable, invocation, history, call>>

\* the loop ends: write_epub
FinishRun ==
    /\ pc = "loop"
    /\ ~InLoop
    /\ EndProcess("finished", 0)
    /\ UNCHANGED <<durable, invocation, history, call>>

get_chapter_html(i) == chapter_cache[i]

\* lines 81-93
SkipChapter ==
    /\ InLoop
    /\ IsDone(idx, done_chapters)
    /\ items' = [items EXCEPT ![idx] =
                    IF get_chapter_html(idx) # NoCache THEN get_chapter_html(idx) ELSE @]
    /\ idx' = idx + 1
    /\ UNCHANGED <<durable, invocation, history, call, chapter, pc, runs, glossary,
                   summary, characters, done_chapters, limit_cache, calls>>


\* faulty variant: the empty chapter goes through the rebuild
EmptyChapterRebuilt ==
    /\ InLoop
    /\ ~IsDone(idx, done_chapters)
    /\ en_blocks = <<>>
    /\ checkpoint' = mark_done(checkpoint, idx)
    /\ idx' = idx + 1
    /\ items' = [items EXCEPT ![idx] = Html(<<>>)]
    /\ UNCHANGED <<glossary_file, summary_file, char_file, chapter_cache, invocation,
                   history, call, chapter, pc, runs, glossary, summary, characters,
                   done_chapters, limit_cache, calls>>

\* lines 110-113
EmptyChapter ==
    /\ InLoop
    /\ ~IsDone(idx, done_chapters)
    /\ en_blocks = <<>>
    /\ checkpoint' = mark_done(checkpoint, idx)
    /\ idx' = idx + 1
    /\ UNCHANGED <<glossary_file, summary_file, char_file, chapter_cache, invocation,
                   history, call, chapter, pc, runs, glossary, summary, characters,
                   done_chapters, limit_cache, items, calls>>

\* lines 95-174: a chapter with blocks starts; the glossary delta of a
\* narrative chapter
BeginChapter ==
    /\ InLoop
    /\ ~IsDone(idx, done_chapters)
    /\ en_blocks # <<>>
    /\ IF is_narrative(idx)
       THEN \E text \in GlossaryTexts(book[idx]) :
              IF parse_delta_raises(EffectiveText(text))
              THEN Raise
              ELSE /\ ai_text' = text
                   /\ in_state' = [NewInState EXCEPT !.glossary_delta =
                          unique_terms(parse_delta(EffectiveText(text)), glossary)]
                   /\ calls' = calls \cup {idx}
                   /\ pc' = "translate"
                   /\ vi_blocks' = <<>> /\ current_idx' = 0
                   /\ UNCHANGED <<runs, idx, glossary, summary, characters,
                                  done_chapters, limit_cache, items>>
       ELSE /\ ai_text' = NoText /\ in_state' = NewInState
            /\ pc' = "translate"
            /\ vi_blocks' = <<>> /\ current_idx' = 0
            /\ UNCHANGED <<runs, idx, glossary, summary, characters,
                           done_chapters, limit_cache, items, calls>>
    /\ UNCHANGED <<durable, invocation, history, call>>

\* lines 201-230: one iteration of the chunk loop
TranslateChunk ==
    /\ pc = "translate"
    /\ current_idx < total_blocks_count
    /\ LET remaining_blocks == SubSeq(en_blocks, current_idx + 1, total_blocks_count)
       IN  \E raw_limit \in (IF limit_cache = 0 THEN ModelLimits ELSE {limit_cache}),
              count \in CountOracles(Len(remaining_blocks)) :
             LET num_blocks_to_take ==
                     calculate_optimal_chunk_size(remaining_blocks, raw_limit, count)
             IN  \E outcome \in TranslateOutcomes(current_idx, num_blocks_to_take) :
                   LET res == translate_chunk(num_blocks_to_take, outcome)
                   IN  IF res.raised \/ Contaminated(res.blocks)
                       THEN Raise
                       ELSE /\ vi_blocks' = vi_blocks \o res.blocks
                            /\ in_state' = [in_state EXCEPT !.translated_chunks =
                                   add_translated_chunk(@, res.blocks)]
                            /\ current_idx' = current_idx + num_blocks_to_take
                            /\ limit_cache' = raw_limit
                            /\ calls' = calls \cup {idx}
                            /\ UNCHANGED <<pc, runs, idx, glossary, summary, characters,
                                           done_chapters, items, ai_text>>
    /\ UNCHANGED <<durable, invocation, history, call>>

\* lines 232-242: the count check after the loop, then the summary and the
\* characters of a narrative chapter
UpdateMemory ==
    /\ pc = "translate"
    /\ current_idx >= total_blocks_count
    /\ IF Len(vi_blocks) # Len(en_blocks)
       THEN Raise
       ELSE IF is_narrative(idx)
            THEN \E summary_ok \in BOOLEAN, text \in CharTexts(book[idx]) :
                   IF ~summary_ok \/ ~text.ok \/ _parse_character_raises(text)
                   THEN Raise
                   ELSE /\ in_state' = [in_state EXCEPT
                              !.summary_snapshot = Snapshot(<<idx>>),
                              !.character_snapshot = Snapshot(
                                  IF chapter_type(idx) = "FIRST_NARRATIVE"
                                  THEN init_characters(text.lines)
                                  ELSE update_characters(characters, text.lines))]
                        /\ pc' = "editor"
                        /\ UNCHANGED <<runs, idx, glossary, summary, characters,
                                       done_chapters, limit_cache, items, calls,
                                       ai_text, vi_blocks, current_idx>>
            ELSE /\ pc' = "rebuild"
                 /\ UNCHANGED <<runs, idx, glossary, summary, characters,
                                done_chapters, limit_cache, items, calls, chapter>>
    /\ UNCHANGED <<durable, invocation, history, call>>

\* lines 245-261
EditChapter ==
    /\ pc = "editor"
    /\ \E k \in 0..Len(vi_blocks), blank \in 0..Len(vi_blocks) :
         /\ blank <= k
         /\ vi_blocks' = edit_chapter(vi_blocks, k, blank)
    /\ pc' = "rebuild"
    /\ UNCHANGED <<durable, invocation, history, call, runs, idx, glossary, summary,
                   characters, done_chapters, limit_cache, items, calls,
                   ai_text, in_state, current_idx>>


\* faulty variant: the commit follows the rebuild even when it raised
RebuildUnchecked ==
    /\ pc = "rebuild"
    /\ items' = [items EXCEPT ![idx] = Html(vi_blocks)]
    /\ pc' = "commit"
    /\ UNCHANGED <<runs, idx, glossary, summary, characters, done_chapters,
                   limit_cache, calls, chapter>>
    /\ UNCHANGED <<durable, invocation, history, call>>


\* faulty variant: the chapter is checkpointed as soon as it is rebuilt
RebuildMarksDone ==
    /\ pc = "rebuild"
    /\ ~rebuild_raises(Len(en_blocks), vi_blocks)
    /\ items' = [items EXCEPT ![idx] = Html(vi_blocks)]
    /\ pc' = "commit"
    /\ checkpoint' = mark_done(checkpoint, idx)
    /\ UNCHANGED <<runs, idx, glossary, summary, characters, done_chapters,
                   limit_cache, calls, chapter>>
    /\ UNCHANGED <<glossary_file, summary_file, char_file, chapter_cache,
                   invocation, history, call>>

\* lines 264-265
Rebuild ==
    /\ pc = "rebuild"
    /\ IF rebuild_raises(Len(en_blocks), vi_blocks)
       THEN Raise
       ELSE /\ items' = [items EXCEPT ![idx] = Html(vi_blocks)]
            /\ pc' = "commit"
            /\ UNCHANGED <<runs, idx, glossary, summary, characters, done_chapters,
                           limit_cache, calls, chapter>>
    /\ UNCHANGED <<durable, invocation, history, call>>

\* state_manager.commit_chapter: three conditional writes, in this order.
\* fail_at = n > 0: the n-th write raises (I/O error) and leaves its file
\* as it was.
GlossaryAfter(file, state, fail_at) ==
    IF state.glossary_delta # <<>> /\ fail_at # 1
    THEN ExtendEntries(file, state.glossary_delta) ELSE file

SummaryAfter(file, state, fail_at) ==
    IF Writes(state.summary_snapshot) /\ fail_at \notin {1, 2}
    THEN state.summary_snapshot.val ELSE file


\* faulty variant: the snapshot is appended to the stored list
CharactersAppended(file, state, fail_at) ==
    IF Writes(state.character_snapshot) /\ fail_at = 0
    THEN file \o state.character_snapshot.val ELSE file

CharactersAfter(file, state, fail_at) ==
    IF Writes(state.character_snapshot) /\ fail_at = 0
    THEN state.character_snapshot.val ELSE file

CanFailAt(state, fail_at) ==
    \/ fail_at = 0
    \/ fail_at = 1 /\ state.glossary_delta # <<>>
    \/ fail_at = 2 /\ Writes(state.summary_snapshot)
    \/ fail_at = 3 /\ Writes(state.character_snapshot)

RecordPronouns(fp, roster) ==
    [n \in Names |->
        IF fp[n] = {} THEN PronounsOf(roster, n) ELSE fp[n]]

\* lines 268-273: commit, then the reload of a narrative chapter
CommitStep(done_after) ==
    /\ pc = "commit"
    /\ \E fail_at \in 0..3 :
         /\ CanFailAt(in_state, fail_at)
         /\ glossary_file' = GlossaryAfter(glossary_file, in_state, fail_at)
         /\ summary_file' = SummaryAfter(summary_file, in_state, fail_at)
         /\ char_file' = CharactersAfter(char_file, in_state, fail_at)
         /\ first_pronoun' = RecordPronouns(first_pronoun, char_file')
         /\ IF fail_at # 0
            THEN /\ Raise
                 /\ UNCHANGED prev_commit
            ELSE /\ pc' = "markdone"
                 /\ glossary' = IF is_narrative(idx) THEN glossary_file' ELSE glossary
                 /\ summary' = IF is_narrative(idx) THEN summary_file' ELSE summary
                 /\ characters' = IF is_narrative(idx) THEN char_file' ELSE characters
                 /\ prev_commit' = [idx |-> idx, ai_text |-> ai_text]
                 /\ UNCHANGED <<runs, idx, done_chapters, limit_cache, items, calls,
                                chapter>>
    /\ checkpoint' = done_after
    /\ UNCHANGED <<chapter_cache, invocation, call>>

\* faulty variant: the checkpoint is written before the commit
CommitMarksFirst == CommitStep(mark_done(checkpoint, idx))

CommitChapter == CommitStep(checkpoint)

\* line 275
MarkDone ==
    /\ pc = "markdone"
    /\ checkpoint' = mark_done(checkpoint, idx)
    /\ idx' = idx + 1
    /\ pc' = "loop"
    /\ ResetChapter
    /\ prev_commit' = NoCommit
    /\ UNCHANGED <<glossary_file, summary_file, char_file, chapter_cache, invocation,
                   first_pronoun, call, runs, glossary, summary, characters,
                   done_chapters, limit_cache, items, calls>>

\* the process is killed between two steps
Interrupt ==
    /\ pc \in {"loop", "translate", "editor", "rebuild", "commit", "markdone"}
    /\ EndProcess("stopped", 0)
    /\ UNCHANGED <<durable, invocation, history, call>>

Next ==
    \/ StartRun
    \/ FinishRun
    \/ SkipChapter
    \/ EmptyChapter
    \/ BeginChapter
    \/ TranslateChunk
    \/ UpdateMemory
    \/ EditChapter
    \/ Rebuild
    \/ CommitChapter
    \/ MarkDone
    \/ Interrupt

Init == InitWith(PlainBooks)

InitGlossary == InitWith(TermBooks)

InitCast == InitWith(CastBooks)

Spec == Init /\ [][Next]_vars

SpecGlossary == InitGlossary /\ [][Next]_vars

SpecCast == InitCast /\ [][Next]_vars

(***************************************************************************)
(* Function-level specifications: the inputs are drawn in the initial      *)
(* state and one step applies the function.  The pipeline stands still.    *)
(***************************************************************************)
PipelineIdle ==
    /\ glossary_file = <<>> /\ summary_file = <<>> /\ char_file = <<>>
    /\ checkpoint = {}
    /\ chapter_cache = [i \in ChapterIds |-> NoCache]
    /\ book = [i \in ChapterIds |-> [lens |-> <<>>, vocab |-> {}, cast |-> {}]]
    /\ first_narrative_index = 0
    /\ last_chapter_index = NumChapters - 1
    /\ pc = "stopped" /\ runs = 0 /\ idx = 0
    /\ glossary = <<>> /\ summary = <<>> /\ characters = <<>>
    /\ done_chapters = {} /\ limit_cache = 0
    /\ items = [i \in ChapterIds |-> Orig] /\ calls = {}
    /\ ai_text = NoText /\ in_state = NewInState
    /\ vi_blocks = <<>> /\ current_idx = 0
    /\ first_pronoun = [n \in Names |-> {}]
    /\ prev_commit = NoCommit

pipeline == <<durable, invocation, process, chapter, history>>

\* translate_chunk on any raw text of at most MaxTokens tokens
Tokens == {Mark(n) : n \in 1..(MaxBlocks + 1)} \cup {Text(Vi(1)), Text(WS), Text(LABEL)}

RawTexts == SeqsUpTo(Tokens, MaxTokens)

InitTranslate ==
    /\ PipelineIdle
    /\ \E N \in 1..MaxBlocks, ok \in BOOLEAN, raw \in RawTexts :
         call = [op |-> "translate_chunk", N |-> N,
                 outcome |-> [ok |-> ok, raw |-> raw], done |-> FALSE,
                 result |-> [raised |-> TRUE, matches |-> <<>>, blocks |-> <<>>]]

ApplyTranslate ==
    /\ call.op = "translate_chunk" /\ ~call.done
    /\ call' = [call EXCEPT !.done = TRUE,
                            !.result = translate_chunk(call.N, call.outcome)]
    /\ UNCHANGED pipeline

SpecTranslate == InitTranslate /\ [][ApplyTranslate]_vars

\* update_characters on any roster and any response with the header
Rosters == SeqsUpTo([name : Names,
                     vi_pronoun : {vi_pronoun([p |-> w, cap |-> FALSE]) : w \in PronounWords}],
                    MaxCast)

InitUpdateCharacters ==
    /\ PipelineIdle
    /\ \E current \in Rosters, lines \in SeqsUpTo(CharLines(Names), MaxCast) :
         call = [op |-> "update_characters", current |-> current, lines |-> lines,
                 done |-> FALSE, result |-> <<>>]

ApplyUpdateCharacters ==
    /\ call.op = "update_characters" /\ ~call.done
    /\ call' = [call EXCEPT !.done = TRUE,
                            !.result = update_characters(call.current, call.lines)]
    /\ UNCHANGED pipeline

SpecUpdateCharacters == InitUpdateCharacters /\ [][ApplyUpdateCharacters]_vars

(***************************************************************************)
(* The call layers: the retry loops and the fallback chains.               *)
(* One step is one attempt: the provider call, the handling of its outcome *)
(* and the wait that follows it.  The record call holds                    *)
(*   layer, stage : the engine that calls and the candidate being called   *)
(*   attempt      : the number of the next attempt of the running loop     *)
(*   made         : the provider calls made so far, per candidate          *)
(*   last         : the attempt just made: candidate, number, outcome,     *)
(*                  the wait after it, whether its loop goes on (retry)    *)
(*                  and the candidate of the next attempt (next)           *)
(*   status, text : "returned" with the text handed back, or "raised"      *)
(***************************************************************************)
max_retries == 5

base_delay == 5

MAX_GOOGLE_ATTEMPTS == 6

OPENAI_RETRIES == 2

SAFE_MODE_RETRIES == 1

CHARACTER_MAX_RETRIES == 4

CHARACTER_BASE_DELAY == 2

max_api_retries == 5

Layers == {"translation", "summary", "character", "editor"}

Candidates ==
    {"primary", "fallback", "secondary", "tertiary", "openai_standard", "openai_safe"}

\* what one provider call can come to: a text, no text at all ("empty_bare":
\* on a response object without the prompt_feedback attribute), an
\* explicit refusal of the content, a rate-limit error (429), another
\* client error, any other error (network, 5xx)
FailureKinds == {"empty", "empty_bare", "refusal", "rate_limit", "client_error", "error"}

PlainTexts == {<<Text(Vi(1))>>, <<Text(WS)>>}

ChunkN == 1

ChunkTexts == (TranslateTexts(0, ChunkN) \cup {<<Text(WS)>>}) \ {<<>>}

Outcomes(texts) ==
    [kind : {"text"}, raw : texts] \cup [kind : FailureKinds, raw : {<<>>}]

\* str.strip() on a text of tokens
RECURSIVE LStripTokens(_)
LStripTokens(t) == IF t # <<>> /\ Head(t) = Text(WS) THEN LStripTokens(Tail(t)) ELSE t

RECURSIVE RStripTokens(_)
RStripTokens(t) ==
    IF t # <<>> /\ t[Len(t)] = Text(WS) THEN RStripTokens(SubSeq(t, 1, Len(t) - 1)) ELSE t

StripTokens(t) == RStripTokens(LStripTokens(t))

RECURSIVE Pow2(_)
Pow2(n) == IF n <= 0 THEN 1 ELSE 2 * Pow2(n - 1)

Wait(secs, jitter) == [secs |-> secs, jitter |-> jitter]

NoWait == Wait(0, FALSE)

\* the effect of one attempt on its loop
Return(raw) == [verdict |-> "return", wait |-> NoWait, text |-> StripTokens(raw)]

Retry(wait) == [verdict |-> "retry", wait |-> wait, text |-> <<>>]

Leave == [verdict |-> "leave", wait |-> NoWait, text |-> <<>>]

\* faulty variant: the first failure already leaves the loop
AnyAttemptIsLast(attempt, limit) == TRUE

\* "if attempt == self.max_retries: raise"
IsLastAttempt(attempt, limit) == attempt = limit

\* TranslationEngine._call_gemini_native, one iteration
gemini_wait(kind, attempt) ==
    CASE kind = "rate_limit" -> Wait(base_delay * Pow2(attempt - 1), TRUE)
      [] kind = "client_error" -> Wait(2, FALSE)
      [] OTHER -> Wait(2 * attempt, FALSE)

_call_gemini_native(attempt, outcome) ==
    IF outcome.kind = "text" THEN Return(outcome.raw)
    ELSE IF IsLastAttempt(attempt, max_retries) THEN Leave
    ELSE Retry(gemini_wait(outcome.kind, attempt))

\* SummaryEngine._call_llm, one iteration of the Google loop
SummaryModel(attempt) ==
    IF attempt <= 2 THEN "primary" ELSE IF attempt <= 4 THEN "secondary" ELSE "tertiary"

summary_wait(kind) == IF kind = "rate_limit" THEN Wait(10, FALSE) ELSE Wait(2, FALSE)

summary_google(attempt, outcome) ==
    IF outcome.kind = "refusal" THEN Leave
    ELSE IF outcome.kind = "empty" THEN Leave
    ELSE IF outcome.kind = "text" THEN Return(outcome.raw)
    ELSE IF IsLastAttempt(attempt, MAX_GOOGLE_ATTEMPTS) THEN Leave
    ELSE Retry(summary_wait(outcome.kind))

\* call_openai_fallback, one iteration
call_openai_fallback(attempt, retries, outcome) ==
    IF outcome.kind = "text" THEN Return(outcome.raw)
    ELSE IF outcome.kind = "refusal" THEN Leave
    ELSE IF attempt < retries + 1 THEN Retry(Wait(2 * attempt, FALSE))
    ELSE Leave

\* CharacterEngine._call_llm, one iteration
character_call(attempt, outcome) ==
    IF outcome.kind = "text" THEN Return(outcome.raw)
    ELSE IF attempt < CHARACTER_MAX_RETRIES
         THEN Retry(Wait(CHARACTER_BASE_DELAY * attempt, FALSE))
         ELSE Leave

\* EditorEngine.edit_chapter, one iteration of the retry loop of a batch
editor_call(attempt, outcome) ==
    IF outcome.kind = "text" THEN Return(outcome.raw)
    ELSE IF attempt < max_api_retries THEN Retry(Wait(5 * attempt + 2, FALSE))
    ELSE Leave

NoAttempt == [stage |-> "none", attempt |-> 0, kind |-> "none", wait |-> NoWait,
              retry |-> FALSE, next |-> "none"]

NewCall(layer) ==
    [op |-> "call_layer", layer |-> layer, stage |-> "primary", attempt |-> 1,
     made |-> [c \in Candidates |-> 0], last |-> NoAttempt,
     status |-> "pending", text |-> <<>>]

InitCalls == PipelineIdle /\ call \in {NewCall(layer) : layer \in Layers}

Calling(layer) == call.op = "call_layer" /\ call.layer = layer /\ call.status = "pending"

\* the attempt at call.stage came to outcome.kind with the given effect; a
\* loop that is left hands over to the candidate after (or raises: "none")
AfterAttempt(outcome, effect, next_in_loop, after) ==
    LET next == CASE effect.verdict = "return" -> "none"
                  [] effect.verdict = "retry" -> next_in_loop
                  [] OTHER -> after
    IN  call' = [call EXCEPT
            !.made[call.stage] = @ + 1,
            !.last = [stage |-> call.stage, attempt |-> call.attempt,
                      kind |-> outcome.kind, wait |-> effect.wait,
                      retry |-> effect.verdict = "retry", next |-> next],
            !.stage = IF next = "none" THEN call.stage ELSE next,
            !.attempt = IF effect.verdict = "retry" THEN call.attempt + 1 ELSE 1,
            !.status = CASE effect.verdict = "return" -> "returned"
                         [] next = "none" -> "raised"
                         [] OTHER -> "pending",
            !.text = effect.text]

\* translate_chunk, lines 431-441: the primary model, then the fallback model
GeminiAttempt ==
    /\ Calling("translation")
    /\ \E outcome \in Outcomes(ChunkTexts) :
         AfterAttempt(outcome, _call_gemini_native(call.attempt, outcome), call.stage,
                      IF call.stage = "primary" THEN "fallback" ELSE "none")
    /\ UNCHANGED pipeline

SummaryGoogleAttempt ==
    /\ Calling("summary")
    /\ call.stage \in {"primary", "secondary", "tertiary"}
    /\ \E outcome \in Outcomes(PlainTexts) :
         AfterAttempt(outcome, summary_google(call.attempt, outcome),
                      SummaryModel(call.attempt + 1), "openai_standard")
    /\ UNCHANGED pipeline

SummaryOpenAIAttempt ==
    /\ Calling("summary")
    /\ call.stage \in {"openai_standard", "openai_safe"}
    /\ \E outcome \in Outcomes(PlainTexts) :
         AfterAttempt(outcome,
                      call_openai_fallback(call.attempt,
                          IF call.stage = "openai_standard"
                          THEN OPENAI_RETRIES ELSE SAFE_MODE_RETRIES, outcome),
                      call.stage,
                      IF call.stage = "openai_standard" THEN "openai_safe" ELSE "none")
    /\ UNCHANGED pipeline

CharacterAttempt ==
    /\ Calling("character")
    /\ \E outcome \in Outcomes(PlainTexts) :
         AfterAttempt(outcome, character_call(call.attempt, outcome), call.stage, "none")
    /\ UNCHANGED pipeline

EditorAttempt ==
    /\ Calling("editor")
    /\ \E outcome \in Outcomes(PlainTexts) :
         AfterAttempt(outcome, editor_call(call.attempt, outcome), call.stage, "none")
    /\ UNCHANGED pipeline

NextCalls ==
    \/ GeminiAttempt
    \/ SummaryGoogleAttempt
    \/ SummaryOpenAIAttempt
    \/ CharacterAttempt
    \/ EditorAttempt

SpecCalls == InitCalls /\ [][NextCalls]_vars


(***************************************************************************)
(* calculate_optimal_chunk_size on any remaining blocks, any output limit  *)
(* of the primary model and any outcome of the count_tokens calls.  Block  *)
(* lengths 3, 7 and 14 are estimated at 0, 2 and 4 tokens; the limits 5    *)
(* and 10 give the ceilings 4 and 9, which 3 and 6 counted tokens exceed.  *)
(***************************************************************************)
MaxChunkBlocks == 3   \* remaining blocks handed to the chunker

ChunkBlockLens == {3, 7, 14}

ChunkLimits == {5, 10}

ChunkCounts == {2, 5, 6}

InitChunk ==
    /\ PipelineIdle
    /\ \E remaining_blocks \in SeqsUpTo(ChunkBlockLens, MaxChunkBlocks) \ {<<>>},
          raw_limit \in ChunkLimits :
         \E count \in [1..Len(remaining_blocks) -> ChunkCounts \cup {CountError}] :
            call = [op |-> "calculate_optimal_chunk_size",
                    remaining_blocks |-> remaining_blocks, raw_limit |-> raw_limit,
                    count |-> count, done |-> FALSE, result |-> 0]

ApplyChunk ==
    /\ call.op = "calculate_optimal_chunk_size" /\ ~call.done
    /\ call' = [call EXCEPT !.done = TRUE,
                            !.result = calculate_optimal_chunk_size(
                                call.remaining_blocks, call.raw_limit, call.count)]
    /\ UNCHANGED pipeline

SpecChunk == InitChunk /\ [][ApplyChunk]_vars


(***************************************************************************)
(* EditorEngine.edit_chapter, step by step.  A response is a text of       *)
(* tokens: the markers <<<BLOCK:n>>> and <<<END>>> and pieces of text.     *)
(* The record call holds the locals of the function:                       *)
(*   collected_blocks, current_idx, outer_attempt_count, api_attempt,      *)
(*   start_block_num, new_blocks (of the last response parsed)             *)
(* and batches, the history of the batches requested: the number of the    *)
(* first block of each and how many blocks its response gave.              *)
(***************************************************************************)
MaxEditBlocks == 2      \* blocks of the chapter handed to the editor
MaxEditorTokens == 4    \* tokens of one response of the editor

max_outer_retries == 10

BlockMarker(n) == [t |-> "block", n |-> n, v |-> WS]

EndMarker == [t |-> "end", n |-> 0, v |-> WS]

\* the text of a marker, when it ends up inside the content of a block
MarkerText(n) == Atom("marker", n)

EditorTokens ==
    {BlockMarker(n) : n \in 1..(MaxEditBlocks + 1)}
        \cup {EndMarker, Text(Ed(1)), Text(WS)}

EditorTexts == SeqsUpTo(EditorTokens, MaxEditorTokens)

EditorOutcomes == [kind : {"text"}, raw : EditorTexts] \cup {[kind |-> "error", raw |-> <<>>]}

\* str.find(marker, pos): the first position from pos on, 0 when there is none
RECURSIVE Find(_, _, _)
Find(text, marker, pos) ==
    IF pos > Len(text) THEN 0
    ELSE IF text[pos] = marker THEN pos
    ELSE Find(text, marker, pos + 1)

\* response_text[content_start:e_idx].strip()
Content(text, from, to) ==
    StripText([i \in 1..(to - from + 1) |->
                  IF text[from + i - 1].t = "text" THEN text[from + i - 1].v
                  ELSE MarkerText(text[from + i - 1].n)])

\* the scan of a response for the blocks target_num..last_num, in order
RECURSIVE ScanBlocks(_, _, _, _, _)
ScanBlocks(response_text, target_num, last_num, local_pos, new_blocks) ==
    IF target_num > last_num THEN new_blocks
    ELSE LET s_idx == Find(response_text, BlockMarker(target_num), local_pos)
             e_idx == Find(response_text, EndMarker, s_idx + 1)
         IN  IF s_idx = 0 \/ e_idx = 0 THEN new_blocks
             ELSE ScanBlocks(response_text, target_num + 1, last_num, e_idx + 1,
                             Append(new_blocks, Content(response_text, s_idx + 1, e_idx - 1)))

DraftBlocks(n) == [i \in 1..n |-> <<Vi(i)>>]

NewEdit(n) ==
    [op |-> "edit_chapter", total_blocks |-> n, draft_vi_blocks |-> DraftBlocks(n),
     collected_blocks |-> <<>>, current_idx |-> 0, outer_attempt_count |-> 0,
     api_attempt |-> 0, start_block_num |-> 0, new_blocks |-> <<>>,
     batches |-> <<>>, pc |-> "while", result |-> <<>>]

InitEditor == PipelineIdle /\ call \in {NewEdit(n) : n \in 0..MaxEditBlocks}

Editing(at) == call.op = "edit_chapter" /\ call.pc = at

\* the head of the while loop: a new batch, from the first missing block
EditorBatch ==
    /\ Editing("while")
    /\ IF call.current_idx < call.total_blocks
          /\ call.outer_attempt_count < max_outer_retries
       THEN call' = [call EXCEPT
                !.outer_attempt_count = @ + 1,
                !.start_block_num = call.current_idx + 1,
                !.api_attempt = 1,
                !.batches = Append(@, [start_block_num |-> call.current_idx + 1,
                                       recovered |-> 0]),
                !.pc = "request"]
       ELSE call' = [call EXCEPT !.pc = "fill"]
    /\ UNCHANGED pipeline


\* faulty variant: the blocks are appended but the batch start stays
RecoveredInPlace(new_blocks) ==
    [call EXCEPT !.new_blocks = new_blocks,
                 !.collected_blocks = @ \o new_blocks,
                 !.outer_attempt_count = 0,
                 !.batches[Len(call.batches)].recovered = Len(new_blocks),
                 !.pc = "while"]

\* the blocks of a response are appended and the loop goes on after them
Recovered(new_blocks) ==
    [call EXCEPT !.new_blocks = new_blocks,
                 !.collected_blocks = @ \o new_blocks,
                 !.current_idx = @ + Len(new_blocks),
                 !.outer_attempt_count = 0,
                 !.batches[Len(call.batches)].recovered = Len(new_blocks),
                 !.pc = "while"]


\* faulty variant: a response without a well-formed block is asked again
AfterScanRetries(new_blocks) ==
    IF new_blocks = <<>>
    THEN [call EXCEPT !.new_blocks = <<>>, !.pc = "while"]
    ELSE Recovered(new_blocks)

\* "if not new_blocks: break", else the progress update
AfterScan(new_blocks) ==
    IF new_blocks = <<>>
    THEN [call EXCEPT !.new_blocks = <<>>, !.pc = "fill"]
    ELSE Recovered(new_blocks)

\* one attempt of the retry loop of a batch and, on a response, its scan
EditorRequest ==
    /\ Editing("request")
    /\ \E outcome \in EditorOutcomes :
         LET effect == editor_call(call.api_attempt, outcome)
             new_blocks == ScanBlocks(effect.text, call.start_block_num,
                                      call.total_blocks, 1, <<>>)
         IN  CASE effect.verdict = "retry" ->
                    call' = [call EXCEPT !.api_attempt = @ + 1]
               [] effect.verdict = "leave" \/ effect.text = <<>> ->
                    call' = [call EXCEPT !.new_blocks = <<>>, !.pc = "fill"]
               [] OTHER -> call' = AfterScan(new_blocks)
    /\ UNCHANGED pipeline

\* after the loop: the missing blocks come from the draft; final validation

\* faulty variant: the blocks recovered are returned without the draft
NoFill(collected_blocks, draft_vi_blocks, total_blocks) == collected_blocks

FillFromDraft(collected_blocks, draft_vi_blocks, total_blocks) ==
    IF Len(collected_blocks) < total_blocks
    THEN collected_blocks
            \o SubSeq(draft_vi_blocks, Len(collected_blocks) + 1, Len(draft_vi_blocks))
    ELSE collected_blocks

EditorFinish ==
    /\ Editing("fill")
    /\ LET filled == FillFromDraft(call.collected_blocks, call.draft_vi_blocks,
                                   call.total_blocks)
       IN  call' = [call EXCEPT
                !.result = filled,
                !.pc = IF Len(filled) # call.total_blocks THEN "raised" ELSE "returned"]
    /\ UNCHANGED pipeline

NextEditor == EditorBatch \/ EditorRequest \/ EditorFinish

SpecEditor == InitEditor /\ [][NextEditor]_vars


(***************************************************************************)
(* parse_delta on any response: any form of text, and any elements with    *)
(* sources that are words, empty or white space only                       *)
(***************************************************************************)
DeltaElems ==
    TermsOver(Words \cup {""}) \cup
    {e \in Elements(Words) : e.kind # "term" /\ ~e.source.cap /\ ~e.source.pad}

DeltaTexts ==
    [form : TextForms, fenced : BOOLEAN, items : SeqsUpTo(DeltaElems, MaxTerms)]

InitParseDelta ==
    /\ PipelineIdle
    /\ \E ai \in DeltaTexts :
         call = [op |-> "parse_delta", ai_text |-> ai, done |-> FALSE,
                 raised |-> FALSE, result |-> <<>>]

ApplyParseDelta ==
    /\ call.op = "parse_delta" /\ ~call.done
    /\ call' = [call EXCEPT
            !.done = TRUE,
            !.raised = parse_delta_raises(call.ai_text),
            !.result = IF parse_delta_raises(call.ai_text) THEN <<>>
                       ELSE parse_delta(call.ai_text)]
    /\ UNCHANGED pipeline

SpecParseDelta == InitParseDelta /\ [][ApplyParseDelta]_vars


(***************************************************************************)
(* InChapterState: any sequence of add_translated_chunk and                *)
(* get_last_chunks calls on one object.  The record call holds the stored  *)
(* chunks, the last call made (its argument, whether it raised, what it    *)
(* returned, the chunks before it) and added, the non-empty chunks         *)
(* accepted so far.                                                        *)
(***************************************************************************)
MaxAdds == 3          \* add_translated_chunk calls on one object
MaxAsk == 3           \* largest max_blocks asked of get_last_chunks

ContextBlocks == {<<Vi(1)>>, <<Vi(2)>>, <<LABEL, Vi(1)>>}

ContextChunks == SeqsUpTo(ContextBlocks, MaxBlocks)

NewContext ==
    [op |-> "in_chapter_state", chunks |-> <<>>, added |-> <<>>, adds |-> 0,
     last |-> "init", arg |-> <<>>, max_blocks |-> 0, raised |-> FALSE,
     before |-> <<>>, result |-> <<>>]

InitContext == PipelineIdle /\ call = NewContext

AddChunk ==
    /\ call.op = "in_chapter_state" /\ call.adds < MaxAdds
    /\ \E vi_chunk \in ContextChunks :
         call' = [call EXCEPT
            !.last = "add", !.arg = vi_chunk, !.before = call.chunks,
            !.adds = @ + 1, !.max_blocks = 0, !.result = <<>>,
            !.raised = Contaminated(vi_chunk),
            !.chunks = IF Contaminated(vi_chunk) THEN @
                       ELSE add_translated_chunk(@, vi_chunk),
            !.added = IF Contaminated(vi_chunk) \/ vi_chunk = <<>> THEN @
                      ELSE Append(@, vi_chunk)]
    /\ UNCHANGED pipeline

GetLastChunks ==
    /\ call.op = "in_chapter_state"
    /\ \E max_blocks \in -1..MaxAsk :
         call' = [call EXCEPT
            !.last = "get", !.arg = <<>>, !.before = call.chunks,
            !.max_blocks = max_blocks, !.raised = FALSE,
            !.result = get_last_chunks(call.chunks, max_blocks)]
    /\ UNCHANGED pipeline

NextContext == AddChunk \/ GetLastChunks

SpecContext == InitContext /\ [][NextContext]_vars

(***************************************************************************)
(* Properties                                                              *)
(***************************************************************************)

\* C1: the list of translated blocks handed to the rebuild of a chapter has
\* as many blocks as the chapter has source blocks, whatever chunk sizes
\* the chunker produced.
C1_BlockCountPreserved == pc = "rebuild" => Len(vi_blocks) = Len(en_blocks)

\* a chapter of two blocks translated in two chunks is handed to the rebuild
C1_TwoChunksRebuilt ==
    /\ pc = "rebuild"
    /\ Len(en_blocks) = 2 /\ Len(vi_blocks) = 2
    /\ Len(in_state.translated_chunks) = 2

\* C2: a chunk translate_chunk accepts holds, at every position i, the
\* segment the provider marked [i].
C2_PlacedByMarker ==
    (call.op = "translate_chunk" /\ call.done /\ ~call.result.raised) =>
        \A i \in 1..Len(call.result.matches) : call.result.matches[i].idx = i

\* C3: when a stage of a chapter raises, the chapter's index is not in the
\* checkpoint at the end of that run.
C3_FailedNotCheckpointed == pc = "failed" => idx \notin checkpoint

\* the commit of chapter 0 wrote the glossary and failed at the summary
C3_CommitFailedHalfway ==
    /\ pc = "failed" /\ runs = 1 /\ idx = 0
    /\ glossary_file # <<>> /\ summary_file = <<>>

\* C4: once a name is stored with a pronoun record, every persisted roster
\* that holds the name holds it with that pronoun record.
C4_PronounImmutable ==
    \A i \in 1..Len(char_file) :
        first_pronoun[char_file[i].name] # {} =>
            char_file[i].vi_pronoun \in first_pronoun[char_file[i].name]

\* C5: in the roster update_characters returns, a name of the current
\* roster carries a pronoun record of the current roster, and a new name
\* carries the pronoun parsed from the provider's line.
C5_LockedPronounsKept ==
    (call.op = "update_characters" /\ call.done) =>
        LET parsed == _parse_character_text(call.lines)
        IN  /\ Len(call.result) = Len(parsed)
            /\ \A i \in 1..Len(parsed) :
                 /\ call.result[i].name = parsed[i].name
                 /\ IF parsed[i].name \in RosterNames(call.current)
                    THEN call.result[i].vi_pronoun
                             \in PronounsOf(call.current, parsed[i].name)
                    ELSE call.result[i].vi_pronoun = parsed[i].vi_pronoun

\* the provider named a known character with another pronoun, and a new one
C5_KnownAndNewNamed ==
    /\ call.op = "update_characters" /\ call.done
    /\ LET parsed == _parse_character_text(call.lines)
       IN  /\ \E i \in 1..Len(parsed) :
                /\ parsed[i].name \in RosterNames(call.current)
                /\ parsed[i].vi_pronoun \notin PronounsOf(call.current, parsed[i].name)
                /\ call.result[i].vi_pronoun # parsed[i].vi_pronoun
           /\ \E i \in 1..Len(parsed) : parsed[i].name \notin RosterNames(call.current)

NoDuplicateIgnoringCase(entries) ==
    \A i, j \in 1..Len(entries) :
        i # j => lower(entries[i].source) # lower(entries[j].source)

\* C6: the persisted glossary never holds two entries whose source terms
\* are equal ignoring case.
C6_NoCaseDuplicates == NoDuplicateIgnoringCase(glossary_file)

\* C7: every commit leaves the persisted glossary with the old list of
\* entries as a prefix of the new one.
C7_GlossaryAppendOnly == [][IsPrefix(glossary_file, glossary_file')]_vars

\* a commit has appended a delta to a glossary that already held entries
C7_DeltaAppended ==
    /\ pc = "markdone"
    /\ in_state.glossary_delta # <<>>
    /\ Len(glossary_file) > Len(in_state.glossary_delta)

\* the commit of a chapter whose previous commit, made from the same
\* provider text, was not followed by its checkpoint
ReCommit ==
    /\ pc = "commit" /\ pc' = "markdone"
    /\ prev_commit.idx = idx /\ prev_commit.ai_text = ai_text

\* C8: committing again a chapter whose delta was already committed, with
\* the same provider terms, leaves the persisted glossary as it was, with
\* no duplicate source term ignoring case.
C8_ReCommitIdempotent ==
    [][ReCommit => /\ glossary_file' = glossary_file
                   /\ NoDuplicateIgnoringCase(glossary_file')]_vars

\* C9: no provider call is made for a chapter whose index was in the
\* checkpoint when the run started.
C9_NoCallForDoneChapter ==
    /\ \A i \in calls : i \notin done_chapters
    /\ pc \in {"translate", "editor", "rebuild", "commit", "markdone"} =>
           idx \notin done_chapters

\* a run skipped a checkpointed chapter with blocks and called the
\* provider for the next one
C9_SkippedThenCalled ==
    /\ 0 \in done_chapters /\ book[0].lens # <<>>
    /\ idx = 1 /\ 1 \in calls

\* the steps C10 is about
CommitSucceeds == pc = "commit" /\ pc' = "markdone"

SkipsNonEmpty ==
    /\ pc = "loop" /\ pc' = "loop" /\ idx' = idx + 1
    /\ idx \in done_chapters /\ book[idx].lens # <<>>

\* C10: a commit stores the rendered content of the chapter under its
\* index, and a later run that skips the chapter sets its content to the
\* stored content.
C10_SkipRestoresCommitted ==
    [][/\ CommitSucceeds => chapter_cache'[idx] = items[idx]
       /\ SkipsNonEmpty => /\ chapter_cache[idx] # NoCache
                           /\ items'[idx] = chapter_cache[idx]]_vars

\* what a commit of the chapter in progress has to write
PendingGlossary == in_state.glossary_delta # <<>>

PendingSummary == Writes(in_state.summary_snapshot)

PendingCharacters == Writes(in_state.character_snapshot)

\* C11: whatever happens inside a commit (a write fails, the process is
\* interrupted), the persisted glossary, summary and characters afterwards
\* either all include the chapter's update or none of them does.
C11_CommitAllOrNothing ==
    [][pc = "commit" =>
         \/ /\ glossary_file' = glossary_file
            /\ summary_file' = summary_file
            /\ char_file' = char_file
         \/ /\ PendingGlossary =>
                   glossary_file' = ExtendEntries(glossary_file, in_state.glossary_delta)
            /\ PendingSummary => summary_file' = in_state.summary_snapshot.val
            /\ PendingCharacters => char_file' = in_state.character_snapshot.val]_vars

\* C12: the persisted set of completed chapters only grows, and mark_done
\* adds the chapter's index to it.
C12_CheckpointGrows ==
    [][/\ checkpoint \subseteq checkpoint'
       /\ (pc = "markdone" /\ pc' = "loop") => checkpoint' = checkpoint \cup {idx}]_vars

\* a second run has added chapter 1 to the chapter 0 the first run recorded
C12_GrownAcrossRuns ==
    /\ runs = 2 /\ checkpoint = {0, 1}
    /\ done_chapters = {0}

InLayer(layer) == call.op = "call_layer" /\ call.layer = layer

\* C13: _call_gemini_native and call_openai_fallback hand back a non-empty
\* text or raise, and when every attempt of both models has failed
\* translate_chunk raises and returns nothing.
C13_NoEmptySuccess ==
    /\ (/\ call.op = "call_layer" /\ call.status = "returned"
        /\ \/ call.layer = "translation"
           \/ call.last.stage \in {"openai_standard", "openai_safe"})
         => call.text # <<>>
    /\ (/\ InLayer("translation")
        /\ call.last.stage = "fallback" /\ call.last.attempt = max_retries
        /\ call.last.kind # "text")
         => call.status = "raised" /\ call.text = <<>>

\* C14: one translate_chunk request calls the primary model at most
\* max_retries times, calls the fallback model only after max_retries
\* primary attempts and at most max_retries times, raises when the last
\* fallback attempt fails, and never makes more than 2 * max_retries calls.
C14_CallsBounded ==
    InLayer("translation") =>
        /\ call.made["primary"] <= max_retries
        /\ call.made["fallback"] <= max_retries
        /\ call.made["fallback"] > 0 => call.made["primary"] = max_retries
        /\ (/\ call.last.stage = "fallback" /\ call.last.attempt = max_retries
            /\ call.last.kind # "text") => call.status = "raised"
        /\ call.made["primary"] + call.made["fallback"] <= 2 * max_retries
        /\ \A c \in Candidates \ {"primary", "fallback"} : call.made[c] = 0

\* both models were called max_retries times and the request raised
C14_BothExhausted ==
    /\ InLayer("translation") /\ call.status = "raised"
    /\ call.made["primary"] = max_retries /\ call.made["fallback"] = max_retries

SummaryStages == <<"primary", "secondary", "tertiary", "openai_standard", "openai_safe">>

AllowedAttempts(stage) ==
    CASE stage = "openai_standard" -> OPENAI_RETRIES + 1
      [] stage = "openai_safe" -> SAFE_MODE_RETRIES + 1
      [] OTHER -> 2

\* C15: a stage of SummaryEngine._call_llm is started only after every
\* attempt allowed to each stage before it has been made, in the order
\* primary, secondary, tertiary model, alternate provider, safe mode; the
\* call raises only after all of them.
C15_StagesInOrder ==
    InLayer("summary") =>
        /\ \A j \in 1..Len(SummaryStages), i \in 1..Len(SummaryStages) :
             (i < j /\ call.made[SummaryStages[j]] > 0) =>
                 call.made[SummaryStages[i]] = AllowedAttempts(SummaryStages[i])
        /\ call.status = "raised" =>
             \A i \in 1..Len(SummaryStages) :
                 call.made[SummaryStages[i]] = AllowedAttempts(SummaryStages[i])

\* C16: after a provider has refused the content, the next attempt, if
\* any, is not made on the same candidate; in the translation call layer,
\* the summary call layer and the alternate-provider fallback.
C16_RefusalNotRetried ==
    (/\ call.op = "call_layer" /\ call.layer \in {"translation", "summary"}
     /\ call.last.kind = "refusal")
      => call.last.next # call.last.stage

MaxBaseDelay == 10

IsExponentialWait(wait, attempt) ==
    /\ wait.jitter
    /\ \E base \in 1..MaxBaseDelay : wait.secs = base * Pow2(attempt - 1)

\* C17: in every retry loop, the wait after an attempt that failed with a
\* rate-limit signal and is followed by another attempt is a base delay
\* times 2^(attempt-1), plus jitter.
C17_RateLimitBackoff ==
    (call.op = "call_layer" /\ call.last.kind = "rate_limit" /\ call.last.retry)
      => IsExponentialWait(call.last.wait, call.last.attempt)

\* C18: a response of the wrong number of blocks, or without any marker,
\* fails the chunk only when it was the last attempt of the last model:
\* before that the chunk is retried or passed to the next model.
C18_BadParseRetried ==
    (/\ InLayer("translation") /\ call.status = "returned" /\ call.text # <<>>
     /\ translate_chunk(ChunkN, [ok |-> TRUE, raw |-> call.text]).raised)
      => call.last.stage = "fallback" /\ call.last.attempt = max_retries

\* C19: no block translate_chunk returns is empty after trimming.
C19_NoEmptyBlock ==
    (call.op = "translate_chunk" /\ call.done /\ ~call.result.raised) =>
        \A i \in 1..Len(call.result.blocks) : ~IsEmptyBlock(call.result.blocks[i])

\* a glossary response that yields no term by parsing or by rescue, or no
\* response at all
Unusable(text) == text.form \in {"garbage", "empty"}

\* C20: a narrative chapter whose glossary response is unusable is aborted:
\* its index is not added to the checkpoint.
C20_BadGlossaryAborts ==
    [][(/\ pc \in {"translate", "editor", "rebuild", "commit", "markdone"}
        /\ is_narrative(idx) /\ Unusable(ai_text))
         => idx \notin checkpoint']_vars


\* edit_chapter under fair scheduling: the coroutine is awaited by run() and
\* every provider call it makes returns or raises
SpecEditorLive == SpecEditor /\ WF_vars(NextEditor)

\* C21: on a non-empty list of remaining blocks the chunker returns n with
\* 1 <= n <= the number of remaining blocks, whatever the block lengths,
\* the output limit and the outcomes of the count calls.
C21_ChunkNeverEmpty ==
    (call.op = "calculate_optimal_chunk_size" /\ call.done) =>
        /\ 1 <= call.result
        /\ call.result <= Len(call.remaining_blocks)

\* the first block alone exceeds the ceiling by the count of the API, and
\* is returned as a batch of one
C21_OversizedFirstBlock ==
    /\ call.op = "calculate_optimal_chunk_size" /\ call.done
    /\ Len(call.remaining_blocks) >= 2
    /\ CutsChunk(block_est(call.remaining_blocks[1]) * 18,
                 safe_limit(call.raw_limit), call.count[1])
    /\ call.result = 1

RECURSIVE EstTokens(_, _)
EstTokens(lens, n) == IF n = 0 THEN 0 ELSE EstTokens(lens, n - 1) + block_est(lens[n])

\* 10 times the projected output of the first n blocks: from the exact count
\* where the count call was made and succeeded, from the estimate otherwise
Projected18(lens, n, safe, count) ==
    IF EstTokens(lens, n) * 18 > safe * 8 /\ count[n] # CountError
    THEN count[n] * 18
    ELSE EstTokens(lens, n) * 18

\* C22: in a batch of two or more blocks no block brought the projected
\* output of the batch above the safe ceiling: the block whose projection
\* exceeds the ceiling is left out.
C22_BatchWithinCeiling ==
    (call.op = "calculate_optimal_chunk_size" /\ call.done /\ call.result >= 2) =>
        \A n \in 1..call.result :
            Projected18(call.remaining_blocks, n, safe_limit(call.raw_limit), call.count)
                <= safe_limit(call.raw_limit) * 10

\* a batch of two blocks checked by the API, the third block left out
\* because its counted projection exceeds the ceiling
C22_ThirdBlockLeftOut ==
    /\ call.op = "calculate_optimal_chunk_size" /\ call.done
    /\ Len(call.remaining_blocks) = 3 /\ call.result = 2
    /\ EstTokens(call.remaining_blocks, 2) * 18 > safe_limit(call.raw_limit) * 8
    /\ call.count[2] # CountError /\ call.count[3] # CountError
    /\ call.count[3] * 18 > safe_limit(call.raw_limit) * 10

\* C23: edit_chapter returns, without raising, as many blocks as it was
\* given, whatever the provider answered at every attempt.
C23_EditorKeepsCount ==
    (call.op = "edit_chapter" /\ call.pc \in {"returned", "raised"}) =>
        /\ call.pc = "returned"
        /\ Len(call.result) = call.total_blocks

\* the editor returned after five failed attempts on its second batch
C23_ErrorsOnSecondBatch ==
    /\ call.op = "edit_chapter" /\ call.pc = "returned"
    /\ call.total_blocks = 2 /\ Len(call.collected_blocks) = 1
    /\ Len(call.batches) = 2 /\ call.api_attempt = max_api_retries

\* a response was scanned and gave blocks / a new batch is requested
BlocksRecovered == call.pc = "request" /\ call'.pc = "while"

BatchRequested == call.pc = "while" /\ call'.pc = "request"

\* C24: the M blocks a response yields are appended to the result as they
\* were scanned, the next batch starts M blocks further (at the first block
\* not yet recovered), and the blocks already in the result stay as they are.
C24_ContinuesAfterRecovered ==
    [][call.op = "edit_chapter" =>
        /\ IsPrefix(call.collected_blocks, call'.collected_blocks)
        /\ BlocksRecovered =>
              /\ Len(call'.new_blocks) >= 1
              /\ call'.collected_blocks = call.collected_blocks \o call'.new_blocks
        /\ BatchRequested =>
              /\ call'.start_block_num = Len(call.collected_blocks) + 1
              /\ call.batches # <<>> =>
                    call'.start_block_num =
                        call.batches[Len(call.batches)].start_block_num
                            + call.batches[Len(call.batches)].recovered
        /\ call'.pc = "returned" => IsPrefix(call.collected_blocks, call'.result)]_vars

\* a first response gave block 1 only, the second batch started at block 2
\* and gave block 2
C24_SecondBatchFromTwo ==
    /\ call.op = "edit_chapter" /\ call.pc = "returned"
    /\ Len(call.batches) = 2
    /\ call.batches[1] = [start_block_num |-> 1, recovered |-> 1]
    /\ call.batches[2] = [start_block_num |-> 2, recovered |-> 1]

\* C25: the output holds the recovered blocks at positions 1..k and the
\* draft blocks of the same positions after them, and the text at a
\* position i never comes from a block of another number.
C25_PositionsByNumber ==
    (call.op = "edit_chapter" /\ call.pc = "returned") =>
        LET k == Len(call.collected_blocks)
        IN  /\ \A i \in 1..k :
                  /\ call.result[i] = call.collected_blocks[i]
                  /\ \A n \in 1..(MaxEditBlocks + 1) :
                        MarkerText(n) \notin Range(call.result[i])
            /\ \A i \in (k + 1)..call.total_blocks :
                  call.result[i] = call.draft_vi_blocks[i]

\* C26: the editor pass never makes a chapter fail: a draft the rebuild
\* would accept is still accepted by the rebuild after the editor pass.
C26_EditorBestEffort ==
    [][(pc = "editor" /\ ~rebuild_raises(Len(en_blocks), vi_blocks)) =>
          ~rebuild_raises(Len(en_blocks), vi_blocks')]_vars

\* a chapter before chapter i has content
HasSeenNarrative(i) == \E j \in 0..(i - 1) : book[j].lens # <<>>

\* C27: the type the orchestrator gives the chapter it works on is the one
\* its content and position call for: the first chapter with content is
\* FIRST_NARRATIVE, a later chapter with content is NARRATIVE.
C27_ClassifiedByContent ==
    pc = "translate" =>
        chapter_type(idx) = classify_chapter(en_blocks, HasSeenNarrative(idx))

\* C28: a chapter without translatable blocks is added to the checkpoint and
\* nothing else happens: no provider call, no rebuild of its document, no
\* write of the glossary, the summary or the characters.
C28_EmptyChapterOnlyMarked ==
    [][(InLoop /\ ~IsDone(idx, done_chapters) /\ en_blocks = <<>> /\ pc' = "loop") =>
          /\ checkpoint' = checkpoint \cup {idx}
          /\ idx' = idx + 1
          /\ UNCHANGED <<glossary_file, summary_file, char_file, chapter_cache,
                         glossary, summary, characters, calls, items, in_state,
                         vi_blocks>>]_vars

\* the empty chapter 0 is in the checkpoint and the run is at chapter 1
C28_EmptyChapterMarked ==
    /\ pc = "loop" /\ runs = 1 /\ idx = 1
    /\ book[0].lens = <<>>
    /\ checkpoint = {0}
    /\ items[0] = Orig /\ calls = {}

C29_EmptySnapshotSkipped ==
    /\ pc = "markdone" /\ idx = 1
    /\ in_state.character_snapshot = Snapshot(<<>>)
    /\ char_file # <<>>

\* a parsed element with every required field: a record with a target and a
\* textual source that is not empty once trimmed
HasRequiredFields(e) == e.kind = "term" /\ strip(e.source).w # ""

\* the first element of data with the source of data[i], trimmed
IsFirstOccurrence(data, i) ==
    \A j \in 1..(i - 1) :
        HasRequiredFields(data[j]) => strip(data[j].source) # strip(data[i].source)

\* C30: parse_delta does not raise on a response it could parse; it returns,
\* in the order of the response, the elements with every required field
\* that are the first with their source, and drops the others.
C30_RejectsOneByOne ==
    (call.op = "parse_delta" /\ call.done /\ ParsedData(call.ai_text) # <<>>) =>
        LET data == ParsedData(call.ai_text)
            kept == {i \in 1..Len(data) :
                        HasRequiredFields(data[i]) /\ IsFirstOccurrence(data, i)}
        IN  /\ ~call.raised
            /\ Len(call.result) = Cardinality(kept)
            /\ \A i \in kept :
                  call.result[Cardinality({j \in kept : j <= i})] = data[i]

\* C31: the stages of a chapter follow one another in the fixed order: the
\* translation starts from the loop, the memory update follows the last
\* chunk, the editor follows the memory update, the rebuild follows the
\* editor (narrative) or the last chunk (non-narrative), the commit follows
\* a rebuild that succeeded, and the checkpoint is written after the commit
\* returned (or at once for a chapter without blocks).
C31_StagesInOrder ==
    [][/\ (pc' = "translate" /\ pc # "translate") => (pc = "loop" /\ vi_blocks' = <<>>)
       /\ pc' = "editor" =>
             /\ pc = "translate" /\ is_narrative(idx)
             /\ Len(vi_blocks) = Len(en_blocks)
             /\ in_state'.summary_snapshot.some /\ in_state'.character_snapshot.some
       /\ pc' = "rebuild" =>
             /\ pc = (IF is_narrative(idx) THEN "editor" ELSE "translate")
             /\ current_idx >= total_blocks_count
       /\ pc' = "commit" =>
             /\ pc = "rebuild" /\ ~rebuild_raises(Len(en_blocks), vi_blocks)
             /\ items'[idx] = Html(vi_blocks)
       /\ pc' = "markdone" => pc = "commit"
       /\ checkpoint' # checkpoint =>
             /\ pc = "markdone" \/ (pc = "loop" /\ en_blocks = <<>>)
             /\ checkpoint' = checkpoint \cup {idx}
       /\ (glossary_file' # glossary_file \/ summary_file' # summary_file
              \/ char_file' # char_file) => pc = "commit"]_vars

\* the narrative chapter 0 went through every stage and is checkpointed
C31_NarrativeChapterDone ==
    /\ pc = "loop" /\ runs = 1 /\ idx = 1
    /\ first_narrative_index = 0 /\ Len(book[0].lens) = 2
    /\ checkpoint = {0}
    /\ summary_file = <<0>> /\ items[0].kind = "html"

\* C32: while a chapter is processed every chapter before it is in the
\* checkpoint, and the checkpoint is at all times a prefix 0..k of the
\* chapter indices, over runs, failures and restarts.
C32_CheckpointIsPrefix ==
    /\ pc \notin {"stopped", "failed", "finished"} =>
          \A j \in 0..(idx - 1) : j \in checkpoint
    /\ \A i \in checkpoint : \A j \in 0..(i - 1) : j \in checkpoint

\* second run: chapter 0 was done in the first run and skipped, chapter 1
\* is being translated
C32_SecondRunAtChapterOne ==
    /\ pc = "translate" /\ runs = 2 /\ idx = 1
    /\ checkpoint = {0}

\* the rolling context handed to the next chunk request, and the last
\* INTRA_CONTEXT_BLOCKS blocks of a chunk
ContextOf(state) == get_last_chunks(state.translated_chunks, INTRA_CONTEXT_BLOCKS)

IsSuffix(s, t) == Len(s) <= Len(t) /\ SubSeq(t, Len(t) - Len(s) + 1, Len(t)) = s

LastBlocks(s, n) == SubSeq(s, Max(1, Len(s) - n + 1), Len(s))

\* C33: the chunks of a chapter are requested one at a time, in block order:
\* the context of the first request is empty, and once a chunk is returned
\* and stored, the context of the next request ends with its translated
\* blocks (with its last 200 when it has more).
C33_ContextFollowsChunks ==
    [][/\ (pc' = "translate" /\ pc # "translate") => ContextOf(in_state') = <<>>
       /\ (pc = "translate" /\ pc' = "translate") =>
             /\ IsPrefix(vi_blocks, vi_blocks')
             /\ current_idx' > current_idx
             /\ Len(vi_blocks') = current_idx'
             /\ IsSuffix(LastBlocks(SubSeq(vi_blocks', Len(vi_blocks) + 1, Len(vi_blocks')),
                                    INTRA_CONTEXT_BLOCKS),
                         ContextOf(in_state'))]_vars

\* the second chunk of a chapter is about to be requested with the first
\* chunk as its context
C33_SecondChunkHasContext ==
    /\ pc = "translate" /\ current_idx = 1 /\ Len(en_blocks) = 2
    /\ ContextOf(in_state) = vi_blocks /\ Len(vi_blocks) = 1

\* C34: the chunks of a chapter are consecutive runs of its blocks: the
\* first starts at block 1, each takes at least one block and at most the
\* blocks that remain, the next starts right after it, and the loop is left
\* with every block sent (after at most as many chunks as blocks).
C34_ChunksPartitionBlocks ==
    [][/\ (pc' = "translate" /\ pc # "translate") => current_idx' = 0
       /\ (pc = "translate" /\ pc' = "translate") =>
             /\ current_idx < current_idx'
             /\ current_idx' <= Len(en_blocks)
             /\ Len(vi_blocks') - Len(vi_blocks) = current_idx' - current_idx
       /\ (pc = "translate" /\ pc' \in {"editor", "rebuild"}) =>
             current_idx = Len(en_blocks)]_vars

\* a chapter of two blocks sent in two chunks of one block
C34_TwoChunksOfOne ==
    /\ pc \in {"editor", "rebuild"}
    /\ Len(en_blocks) = 2 /\ current_idx = 2
    /\ Len(in_state.translated_chunks) = 2
    /\ \A c \in 1..2 : Len(in_state.translated_chunks[c]) = 1

\* a chapter with blocks is being processed and its commit has not started
BeforeCommit ==
    \/ pc \in {"translate", "editor", "rebuild"}
    \/ InLoop /\ ~IsDone(idx, done_chapters) /\ en_blocks # <<>>

\* C35: no step of a chapter before its commit, and no failure or
\* interruption there, changes the stored glossary, summary, characters or
\* checkpoint.
C35_NoWriteBeforeCommit ==
    [][BeforeCommit =>
          UNCHANGED <<glossary_file, summary_file, char_file, checkpoint>>]_vars

\* chapter 1 is rebuilt with a glossary delta waiting in memory, and the
\* files still hold what the commit of chapter 0 left
C35_DeltaPendingAtRebuild ==
    /\ pc = "rebuild" /\ idx = 1
    /\ in_state.glossary_delta # <<>>
    /\ checkpoint = {0} /\ Len(glossary_file) = 1

\* C36: when a NARRATIVE chapter has run its summary and character update,
\* the summary it updated had been stored by the initialisation of an
\* earlier FIRST_NARRATIVE chapter.
C36_MemorySeededFirst ==
    (pc = "editor" /\ chapter_type(idx) = "NARRATIVE") =>
        /\ summary # <<>>
        /\ summary_file # <<>>

\* C37: a character list returned by update_characters holds no name twice,
\* whatever lines the provider wrote.
C37_NamesUnique ==
    (call.op = "update_characters" /\ call.done) =>
        \A i, j \in 1..Len(call.result) :
            i # j => call.result[i].name # call.result[j].name

RECURSIVE Flatten(_)
Flatten(chunks) == IF chunks = <<>> THEN <<>> ELSE Head(chunks) \o Flatten(Tail(chunks))

\* the most recent n elements of s, oldest first
MostRecent(s, n) == IF n <= 0 THEN <<>> ELSE SubSeq(s, Max(1, Len(s) - n + 1), Len(s))

\* C38: the stored window is the most recent max_context_chunks non-empty
\* chunks added; get_last_chunks(m) returns the last min(m, total) blocks of
\* their flattening, oldest first, the empty list for m <= 0, and leaves the
\* window as it was.
C38_LastBlocksOfWindow ==
    call.op = "in_chapter_state" =>
        /\ call.chunks = MostRecent(call.added, max_context_chunks)
        /\ call.last = "get" =>
              /\ call.result = MostRecent(Flatten(MostRecent(call.added, max_context_chunks)),
                                          call.max_blocks)
              /\ call.chunks = call.before

\* three chunks were added and the last two blocks are asked for: they
\* span the two chunks kept, the first chunk is evicted
C38_WindowAfterEviction ==
    /\ call.op = "in_chapter_state" /\ call.last = "get"
    /\ Len(call.added) = 3 /\ Len(call.chunks) = 2
    /\ Len(call.chunks[1]) = 2 /\ Len(call.chunks[2]) = 1
    /\ call.max_blocks = 2
    /\ call.result = <<call.chunks[1][2], call.chunks[2][1]>>
    /\ call.chunks[1][2] # call.chunks[2][1]

\* C39: add_translated_chunk raises on a chunk with a block that holds a
\* prompt label and leaves the window as it was; no stored block ever holds
\* a label.
C39_ContaminatedRejected ==
    call.op = "in_chapter_state" =>
        /\ (call.last = "add" /\ \E i \in 1..Len(call.arg) : LABEL \in Range(call.arg[i])) =>
              (call.raised /\ call.chunks = call.before)
        /\ \A c \in 1..Len(call.chunks) : \A b \in 1..Len(call.chunks[c]) :
              LABEL \notin Range(call.chunks[c][b])

\* a chunk whose second block holds a label was refused by an object that
\* holds a chunk
C39_SecondBlockLabelled ==
    /\ call.op = "in_chapter_state" /\ call.last = "add" /\ call.raised
    /\ Len(call.arg) = 2 /\ LABEL \notin Range(call.arg[1])
    /\ Len(call.chunks) = 1

\* the batches requested so far each gave a block, but for the last one
EveryBatchRecovers ==
    \A b \in 1..(Len(call.batches) - 1) : call.batches[b].recovered >= 1

\* C40: edit_chapter ends, whatever the provider does: it requests at most
\* N batches, every batch but the last recovers a block, and a batch makes
\* at most max_api_retries provider calls.
C40_EditorTerminates ==
    /\ [](call.op = "edit_chapter" =>
            /\ Len(call.batches) <= call.total_blocks
            /\ EveryBatchRecovers
            /\ call.api_attempt <= max_api_retries
            /\ call.outer_attempt_count <= 1)
    /\ <>(call.op = "edit_chapter" /\ call.pc \in {"returned", "raised"})

\* the editor returned after the second batch gave no well-formed block
C40_EndedOnEmptyBatch ==
    /\ call.op = "edit_chapter" /\ call.pc = "returned"
    /\ Len(call.batches) = 2 /\ call.batches[2].recovered = 0
    /\ call.api_attempt = 1 /\ Len(call.collected_blocks) = 1

====
